---- MODULE Spec2Model ----
(***************************************************************************)
(* Model of mockstep.py: a telnet client that authenticates against an     *)
(* emulator console, then runs a tick loop sending synthetic accelerometer *)
(* samples, plotting them and detecting step impacts, and on exit resets   *)
(* the sensor and closes the connection.                                   *)
(*                                                                         *)
(* Values of the vertical axis are fixed-point integers in units of 1e-4.  *)
(* The inbound byte stream is a sequence of tagged characters: the tag     *)
(* names the peer message a character belongs to ("g" greeting, "a" reply  *)
(* to the auth line, "s" reply to a sensor command).                       *)
(***************************************************************************)
EXTENDS Integers, Sequences, FiniteSets, TLC

VARIABLES
    pc,            \* position of the single thread of control
    token,         \* auth_token handed to connect_to_emulator
    transport,     \* "none" | "open" | "eof" (peer closed) | "broken" (reset)
    inbuf,         \* bytes received from the peer and not yet consumed
    sent,          \* every line written to the socket, in order
    answered,      \* number of written lines the peer has dealt with
    greeted,       \* the peer has emitted its greeting
    peerAuth,      \* the peer's verdict on the auth line:
                   \* "pending" | "accepted" | "rejected"
    greetRead,     \* value returned by the first read_until (line 33)
    response,      \* value returned by the second read_until (line 40)
    emulator,      \* result of connect_to_emulator: "unset" | "none" | "session"
    step_counter,  \* run_simulation local
    previous_y,    \* run_simulation local
    was_rising,    \* run_simulation local
    y,             \* vertical component of the current sample
    out,           \* console lines of the loop: <<"plot", n, line>>, <<"marker", n>>
    lastSend,      \* outcome of the set_sensor_data call in progress / last finished
    interrupts,    \* number of KeyboardInterrupts delivered so far
    closeCount,    \* number of emulator.close() calls performed
    feed,          \* input sequence of the harnesses of pure functions
    amplitude      \* the module global AMPLITUDE, in 1e-4 units

vars == <<pc, token, transport, inbuf, sent, answered, greeted, peerAuth,
          greetRead, response, emulator, step_counter, previous_y, was_rising,
          y, out, lastSend, interrupts, closeCount, feed, amplitude>>

----------------------------------------------------------------------------
\* Bounds of the model

MaxTicks == 3        \* ticks the loop may start
MaxInterrupts == 2   \* KeyboardInterrupts delivered in one run
MaxGreetLen == 4     \* length of the peer's greeting
MaxReplyLen == 2     \* length of the peer's reply to the auth line
MaxFeed == 5         \* length of the sequences fed to the edge detector
MaxPlotSteps == 140  \* number of grid steps of the values fed to the plotter

----------------------------------------------------------------------------
\* Program constants (mockstep.py lines 8-10), vertical values in 1e-4 units

GRAPH_WIDTH == 50
AMPLITUDE == 20000
Y_BASELINE == 98000

Chars == {"O", "K", "x"}

RECURSIVE SeqsUpTo(_, _)
SeqsUpTo(S, n) ==
    IF n = 0 THEN {<<>>}
    ELSE LET shorter == SeqsUpTo(S, n - 1)
         IN  shorter \cup {Append(s, c) : s \in shorter, c \in S}

\* A peer message as tagged bytes
Tagged(s, src) == [i \in 1..Len(s) |-> [c |-> s[i], src |-> src]]

\* Index of the first character of the first occurrence of the two
\* characters a, b in buf; 0 when there is none (bytes.find)
Find(buf, a, b) ==
    LET hits == {i \in 1..(Len(buf) - 1) : buf[i].c = a /\ buf[i + 1].c = b}
    IN  IF hits = {} THEN 0 ELSE CHOOSE i \in hits : \A j \in hits : i <= j

HasOK(buf) == Find(buf, "O", "K") > 0
HasKO(buf) == Find(buf, "K", "O") > 0
EndsInOK(buf) ==
    Len(buf) >= 2 /\ buf[Len(buf) - 1].c = "O" /\ buf[Len(buf)].c = "K"


\* Messages the peer may emit.  A greeting is any byte sequence ending in OK;
\* a reply to the auth line ends in OK or contains KO.
Greetings ==
    {s \in SeqsUpTo(Chars, MaxGreetLen) :
        Len(s) >= 2 /\ s[Len(s) - 1] = "O" /\ s[Len(s)] = "K"}

AuthReplies ==
    {s \in SeqsUpTo(Chars, MaxReplyLen) :
        \/ Len(s) >= 2 /\ s[Len(s) - 1] = "O" /\ s[Len(s)] = "K"
        \/ \E i \in 1..(Len(s) - 1) : s[i] = "K" /\ s[i + 1] = "O"}

SensorAck == <<"O", "K">>

----------------------------------------------------------------------------
\* telnetlib primitives as used by mockstep.py

\* Telnet.read_until(b"OK", timeout): when the buffered bytes hold the match,
\* return them up to and including it; otherwise, on a reset connection the
\* receive raises; on a closed stream the buffered bytes are returned, or
\* EOFError raised when there are none; otherwise the wait ends by timeout
\* and whatever is buffered is returned (possibly nothing).
ReadUntilOK(buf, tr) ==
    LET i == Find(buf, "O", "K")
    IN  IF i > 0
        THEN [raised |-> FALSE, data |-> SubSeq(buf, 1, i + 1),
              rest |-> SubSeq(buf, i + 2, Len(buf))]
        ELSE IF tr = "broken" \/ (tr = "eof" /\ buf = <<>>)
        THEN [raised |-> TRUE, data |-> <<>>, rest |-> buf]
        ELSE [raised |-> FALSE, data |-> buf, rest |-> <<>>]

\* Telnet.write: sendall raises on a reset connection
WriteRaises(tr) == tr = "broken"

\* '{v:.2f}' of a value in 1e-4 units, as a number of hundredths
Fmt2(v) == (v + 50) \div 100

\* f'sensor set {sensor} {x:.2f}:{y:.2f}:{z:.2f}\n'; kind tells the caller
Command(kind, sensor, x, yy, z) ==
    [kind |-> kind, sensor |-> sensor, x |-> Fmt2(x), y |-> Fmt2(yy), z |-> Fmt2(z)]

AuthLine(tok) == [kind |-> "auth", sensor |-> tok, x |-> 0, y |-> 0, z |-> 0]

\* Y_BASELINE + AMPLITUDE * math.sin(1.25 * step), tabulated in 1e-4 units
WalkTable ==
    <<98000, 116980, 109969, 86569, 78822, 97336, 116760, 110494, 87120, 78644>>

generate_walking_acceleration(step) == <<0, WalkTable[step + 1], 0>>

NoSend == [kind |-> "none", acked |-> FALSE, reported |-> FALSE, finished |-> FALSE]

----------------------------------------------------------------------------
Init ==
    /\ pc = "connect"
    /\ token \in {"", "t"}
    /\ transport = "none"
    /\ inbuf = <<>>
    /\ sent = <<>>
    /\ answered = 0
    /\ greeted = FALSE
    /\ peerAuth = "pending"
    /\ greetRead = <<>>
    /\ response = <<>>
    /\ emulator = "unset"
    /\ step_counter = 0
    /\ previous_y = Y_BASELINE
    /\ was_rising = FALSE
    /\ y = Y_BASELINE
    /\ out = <<>>
    /\ lastSend = NoSend
    /\ interrupts = 0
    /\ closeCount = 0
    /\ feed = <<>>
    /\ amplitude = AMPLITUDE

loopVars == <<step_counter, previous_y, was_rising, y, out>>
peerVars == <<answered, greeted, peerAuth>>
authVars == <<greetRead, response, emulator>>

----------------------------------------------------------------------------
\* connect_to_emulator (lines 27-50) and the call in main (lines 138-141)

\* line 32: telnetlib.Telnet(host, port, timeout=10)
Connect ==
    /\ pc = "connect"
    /\ transport' = "open"
    /\ pc' = "greet_read"
    /\ UNCHANGED <<token, inbuf, sent, peerVars, authVars, loopVars, lastSend,
                   interrupts, closeCount, feed, amplitude>>

\* line 32 raising (peer unreachable, timeout), caught at lines 48-50
ConnectFails ==
    /\ pc = "connect"
    /\ emulator' = "none"
    /\ pc' = "main_if"
    /\ UNCHANGED <<token, transport, inbuf, sent, peerVars, greetRead, response,
                   loopVars, lastSend, interrupts, closeCount, feed, amplitude>>

\* line 33: emulator.read_until(b"OK", timeout=10); a raise is caught at 48-50
GreetRead ==
    /\ pc = "greet_read"
    /\ LET r == ReadUntilOK(inbuf, transport)
       IN  /\ inbuf' = r.rest
           /\ greetRead' = r.data
           /\ IF r.raised
              THEN emulator' = "none" /\ pc' = "main_if"
              ELSE emulator' = emulator /\ pc' = "check_token"
    /\ UNCHANGED <<token, transport, sent, peerVars, response, loopVars,
                   lastSend, interrupts, closeCount, feed, amplitude>>

\* lines 35-37: if not auth_token: return None
CheckToken ==
    /\ pc = "check_token"
    /\ IF token = ""
       THEN emulator' = "none" /\ pc' = "main_if"
       ELSE emulator' = emulator /\ pc' = "auth_write"
    /\ UNCHANGED <<token, transport, inbuf, sent, peerVars, greetRead, response,
                   loopVars, lastSend, interrupts, closeCount, feed, amplitude>>

\* line 39: emulator.write(f'auth {auth_token}\n'); a raise is caught at 48-50
AuthWrite ==
    /\ pc = "auth_write"
    /\ IF WriteRaises(transport)
       THEN sent' = sent /\ emulator' = "none" /\ pc' = "main_if"
       ELSE /\ sent' = Append(sent, AuthLine(token))
            /\ emulator' = emulator
            /\ pc' = "auth_read"
    /\ UNCHANGED <<token, transport, inbuf, peerVars, greetRead, response,
                   loopVars, lastSend, interrupts, closeCount, feed, amplitude>>

\* lines 40-47: read the reply, fail on KO, else return the session
AuthRead ==
    /\ pc = "auth_read"
    /\ LET r == ReadUntilOK(inbuf, transport)
       IN  /\ inbuf' = r.rest
           /\ response' = r.data
           /\ IF r.raised \/ HasKO(r.data)
              THEN emulator' = "none" /\ pc' = "main_if"
              ELSE emulator' = "session" /\ pc' = "main_if"
    /\ UNCHANGED <<token, transport, sent, peerVars, greetRead, loopVars,
                   lastSend, interrupts, closeCount, feed, amplitude>>

\* line 140: connect_to_emulator returned None, main ends
NoSession ==
    /\ pc = "main_if"
    /\ emulator = "none"
    /\ pc' = "done"
    /\ UNCHANGED <<token, transport, inbuf, sent, peerVars, authVars, loopVars,
                   lastSend, interrupts, closeCount, feed, amplitude>>

\* run_simulation called without the test of line 140
StartLoop_unguarded ==
    /\ pc = "main_if"
    /\ greetRead' = <<>>
    /\ response' = <<>>
    /\ step_counter' = 0
    /\ previous_y' = Y_BASELINE
    /\ was_rising' = FALSE
    /\ pc' = "tick_send"
    /\ UNCHANGED <<token, transport, inbuf, sent, peerVars, emulator, y, out,
                   lastSend, interrupts, closeCount, feed, amplitude>>

\* lines 140-141 and 79-83: main calls run_simulation, which sets up its
\* locals; the locals of connect_to_emulator are gone
StartLoop ==
    /\ pc = "main_if"
    /\ emulator = "session"
    /\ greetRead' = <<>>
    /\ response' = <<>>
    /\ step_counter' = 0
    /\ previous_y' = Y_BASELINE
    /\ was_rising' = FALSE
    /\ pc' = "tick_send"
    /\ UNCHANGED <<token, transport, inbuf, sent, peerVars, emulator, y, out,
                   lastSend, interrupts, closeCount, feed, amplitude>>

\* KeyboardInterrupt before run_simulation is entered: the except Exception
\* of connect_to_emulator does not catch it, it leaves main
InterruptConnect ==
    /\ pc \in {"connect", "greet_read", "check_token", "auth_write", "auth_read",
              "main_if"}
    /\ interrupts < MaxInterrupts
    /\ interrupts' = interrupts + 1
    /\ pc' = "aborted"
    /\ UNCHANGED <<token, transport, inbuf, sent, peerVars, authVars, loopVars,
                   lastSend, closeCount, feed, amplitude>>

----------------------------------------------------------------------------
\* set_sensor_data (lines 52-61), as called from the loop and from finally

\* a failed write that ends the loop instead of returning to it
SensorWrite_escalates(kind, yy, ackPc, retPc) ==
    IF WriteRaises(transport)
    THEN /\ sent' = sent
         /\ lastSend' = [kind |-> kind, acked |-> FALSE, reported |-> TRUE,
                         finished |-> TRUE]
         /\ pc' = "close"
    ELSE /\ sent' = Append(sent, Command(kind, "acceleration", 0, yy, 0))
         /\ lastSend' = [kind |-> kind, acked |-> FALSE, reported |-> FALSE,
                         finished |-> FALSE]
         /\ pc' = ackPc

\* lines 57-58: format and write the command; a raise is caught and printed
\* at lines 60-61 and the call returns.  Gives the changes of the call's
\* write step, leaving pc at ackPc after a write and at retPc after a raise.
SensorWrite(kind, yy, ackPc, retPc) ==
    IF WriteRaises(transport)
    THEN /\ sent' = sent
         /\ lastSend' = [kind |-> kind, acked |-> FALSE, reported |-> TRUE,
                         finished |-> TRUE]
         /\ pc' = retPc
    ELSE /\ sent' = Append(sent, Command(kind, "acceleration", 0, yy, 0))
         /\ lastSend' = [kind |-> kind, acked |-> FALSE, reported |-> FALSE,
                         finished |-> FALSE]
         /\ pc' = ackPc

\* a wait whose exception leaves set_sensor_data instead of being caught
SensorAckWait_propagates(retPc) ==
    LET r == ReadUntilOK(inbuf, transport)
    IN  /\ inbuf' = r.rest
        /\ lastSend' = [lastSend EXCEPT !.acked = EndsInOK(r.data),
                                        !.reported = r.raised,
                                        !.finished = TRUE]
        /\ pc' = IF r.raised THEN "killed" ELSE retPc

\* line 59: emulator.read_until(b"OK", timeout=2), result discarded; a raise
\* is caught and printed at lines 60-61; either way the call returns
SensorAckWait(retPc) ==
    LET r == ReadUntilOK(inbuf, transport)
    IN  /\ inbuf' = r.rest
        /\ lastSend' = [lastSend EXCEPT !.acked = EndsInOK(r.data),
                                        !.reported = r.raised,
                                        !.finished = TRUE]
        /\ pc' = retPc

----------------------------------------------------------------------------
\* run_simulation (lines 75-104)

\* the comparison with >= in place of >
is_rising_now_ge(yy, prev) == yy >= prev

is_rising_now(yy, prev) == yy > prev

\* the marker printed on every sample that does not rise
MarkerLines_nowas(was, yy, prev, n) ==
    IF ~is_rising_now(yy, prev) THEN << <<"marker", n>> >> ELSE <<>>

\* lines 91-92: the marker line printed while processing sample n, if any
MarkerLines(was, yy, prev, n) ==
    IF was /\ ~is_rising_now(yy, prev) THEN << <<"marker", n>> >> ELSE <<>>

\* lines 86-87 up to the write inside set_sensor_data
TickSend ==
    /\ pc = "tick_send"
    /\ step_counter < MaxTicks
    /\ y' = generate_walking_acceleration(step_counter)[2]
    /\ SensorWrite("tick", y', "tick_ack", "plot")
    /\ UNCHANGED <<token, transport, inbuf, peerVars, authVars, step_counter,
                   previous_y, was_rising, out, interrupts, closeCount, feed, amplitude>>

\* a tick whose failed wait skips the plot
TickAck_skipsplot ==
    /\ pc = "tick_ack"
    /\ LET r == ReadUntilOK(inbuf, transport)
       IN  /\ inbuf' = r.rest
           /\ lastSend' = [lastSend EXCEPT !.acked = EndsInOK(r.data),
                                           !.reported = r.raised,
                                           !.finished = TRUE]
           /\ pc' = IF r.raised THEN "edge" ELSE "plot"
    /\ UNCHANGED <<token, transport, sent, peerVars, authVars, loopVars,
                   interrupts, closeCount, feed, amplitude>>

\* line 87, the acknowledgement wait inside set_sensor_data
TickAck ==
    /\ pc = "tick_ack"
    /\ SensorAckWait("plot")
    /\ UNCHANGED <<token, transport, sent, peerVars, authVars, loopVars,
                   interrupts, closeCount, feed, amplitude>>

\* Bar lengths k for which the double arithmetic of lines 16-22 gives k - 1
\* at the value whose exact quotient is k: 9.8 - 2.0 is 7.800000000000001,
\* so the normalised value falls just short of the cell boundary
ShortCells == (1..22) \cup (28..45)

\* the rendering without the clamp of line 20
plot_data_point_unclamped(y_value, amp) ==
    LET min_y == Y_BASELINE - amp
        max_y == Y_BASELINE + amp
        scaled == (y_value - min_y) * GRAPH_WIDTH
    IN  IF max_y - min_y = 0
        THEN [error |-> "ZeroDivisionError", value |-> Fmt2(y_value), bar |-> 0]
        ELSE [error |-> "none", value |-> Fmt2(y_value),
              bar |-> scaled \div (max_y - min_y)]

\* lines 16-24: the line printed for y_value, as the value with two decimals
\* and the length of the bar; the division of line 21 raises when max_y
\* equals min_y
plot_data_point(y_value, amp) ==
    LET min_y == Y_BASELINE - amp
        max_y == Y_BASELINE + amp
        lower == IF y_value < max_y THEN y_value ELSE max_y
        y_value_clamped == IF min_y > lower THEN min_y ELSE lower
        scaled == (y_value_clamped - min_y) * GRAPH_WIDTH
    IN  IF max_y - min_y = 0
        THEN [error |-> "ZeroDivisionError", value |-> Fmt2(y_value), bar |-> 0]
        ELSE LET exact == scaled \div (max_y - min_y)
                 onCell == scaled % (max_y - min_y) = 0
             IN  [error |-> "none", value |-> Fmt2(y_value),
                  bar |-> IF amp = AMPLITUDE /\ onCell /\ exact \in ShortCells
                          THEN exact - 1 ELSE exact]

\* line 88: plot_data_point(y)
Plot ==
    /\ pc = "plot"
    /\ out' = Append(out, <<"plot", step_counter, plot_data_point(y, amplitude)>>)
    /\ pc' = "edge"
    /\ UNCHANGED <<token, transport, inbuf, sent, peerVars, authVars,
                   step_counter, previous_y, was_rising, y, lastSend, interrupts, closeCount, feed, amplitude>>

\* the step index advanced by two
Edge_skips ==
    /\ pc = "edge"
    /\ out' = out \o MarkerLines(was_rising, y, previous_y, step_counter)
    /\ was_rising' = is_rising_now(y, previous_y)
    /\ previous_y' = y
    /\ step_counter' = step_counter + 2
    /\ pc' = "sleep"
    /\ UNCHANGED <<token, transport, inbuf, sent, peerVars, authVars, y,
                   lastSend, interrupts, closeCount, feed, amplitude>>

\* lines 90-96: edge detection and the update of the loop state
Edge ==
    /\ pc = "edge"
    /\ out' = out \o MarkerLines(was_rising, y, previous_y, step_counter)
    /\ was_rising' = is_rising_now(y, previous_y)
    /\ previous_y' = y
    /\ step_counter' = step_counter + 1
    /\ pc' = "sleep"
    /\ UNCHANGED <<token, transport, inbuf, sent, peerVars, authVars, y,
                   lastSend, interrupts, closeCount, feed, amplitude>>

\* line 97: time.sleep(0.1) returns
Sleep ==
    /\ pc = "sleep"
    /\ pc' = "tick_send"
    /\ UNCHANGED <<token, transport, inbuf, sent, peerVars, authVars, loopVars,
                   lastSend, interrupts, closeCount, feed, amplitude>>

LoopPcs == {"tick_send", "tick_ack", "plot", "edge", "sleep"}
FinallyPcs == {"reset_send", "reset_ack", "close"}

\* an interrupt swallowed inside the tick, the loop going on
InterruptLoop_swallowed ==
    /\ pc \in LoopPcs
    /\ interrupts < MaxInterrupts
    /\ interrupts' = interrupts + 1
    /\ pc' = "plot"
    /\ UNCHANGED <<token, transport, inbuf, sent, peerVars, authVars, loopVars,
                   lastSend, closeCount, feed, amplitude>>

\* KeyboardInterrupt delivered inside the try block (lines 85-97, including
\* inside set_sensor_data, whose except Exception does not catch it): control
\* goes to the handler at line 98
InterruptLoop ==
    /\ pc \in LoopPcs
    /\ interrupts < MaxInterrupts
    /\ interrupts' = interrupts + 1
    /\ pc' = "stopping"
    /\ UNCHANGED <<token, transport, inbuf, sent, peerVars, authVars, loopVars,
                   lastSend, closeCount, feed, amplitude>>

\* lines 99 and 101: the handler prints and falls into the finally block
Stopping ==
    /\ pc = "stopping"
    /\ pc' = "reset_send"
    /\ UNCHANGED <<token, transport, inbuf, sent, peerVars, authVars, loopVars,
                   lastSend, interrupts, closeCount, feed, amplitude>>

\* KeyboardInterrupt delivered inside the handler (line 99): the finally
\* block still runs, the exception propagates after it
InterruptHandler ==
    /\ pc = "stopping"
    /\ interrupts < MaxInterrupts
    /\ interrupts' = interrupts + 1
    /\ pc' = "reset_send"
    /\ UNCHANGED <<token, transport, inbuf, sent, peerVars, authVars, loopVars,
                   lastSend, closeCount, feed, amplitude>>

\* line 102 up to the write inside set_sensor_data
ResetSend ==
    /\ pc = "reset_send"
    /\ SensorWrite("reset", Y_BASELINE, "reset_ack", "close")
    /\ UNCHANGED <<token, transport, inbuf, peerVars, authVars, loopVars,
                   interrupts, closeCount, feed, amplitude>>

\* line 102, the acknowledgement wait inside set_sensor_data
ResetAck ==
    /\ pc = "reset_ack"
    /\ SensorAckWait("close")
    /\ UNCHANGED <<token, transport, sent, peerVars, authVars, loopVars,
                   interrupts, closeCount, feed, amplitude>>

\* lines 103-104: emulator.close()
Close ==
    /\ pc = "close"
    /\ closeCount' = closeCount + 1
    /\ transport' = "closed"
    /\ pc' = "done"
    /\ UNCHANGED <<token, inbuf, sent, peerVars, authVars, loopVars, lastSend,
                   interrupts, feed, amplitude>>

\* KeyboardInterrupt delivered inside the finally block (lines 101-104): the
\* rest of the block is skipped and the exception leaves run_simulation
InterruptFinally ==
    /\ pc \in FinallyPcs
    /\ interrupts < MaxInterrupts
    /\ interrupts' = interrupts + 1
    /\ pc' = "killed"
    /\ UNCHANGED <<token, transport, inbuf, sent, peerVars, authVars, loopVars,
                   lastSend, closeCount, feed, amplitude>>

----------------------------------------------------------------------------
\* The peer (the emulator console at the other end of the socket)

\* the unsolicited greeting, emitted at some time after the connection opens
PeerGreet ==
    /\ transport = "open"
    /\ ~greeted
    /\ greeted' = TRUE
    /\ \E g \in Greetings : inbuf' = inbuf \o Tagged(g, "g")
    /\ UNCHANGED <<pc, token, transport, sent, answered, peerAuth, authVars,
                   loopVars, lastSend, interrupts, closeCount, feed, amplitude>>

\* a reply containing KO rejects the token, any other reply (ending in OK)
\* accepts it
Verdict(r) ==
    IF \E i \in 1..(Len(r) - 1) : r[i] = "K" /\ r[i + 1] = "O"
    THEN "rejected" ELSE "accepted"

\* the reply to the oldest line not yet dealt with
PeerReply ==
    /\ transport = "open"
    /\ greeted
    /\ answered < Len(sent)
    /\ answered' = answered + 1
    /\ IF sent[answered + 1].kind = "auth"
       THEN \E r \in AuthReplies :
               /\ peerAuth' = Verdict(r)
               /\ inbuf' = inbuf \o Tagged(r, "a")
       ELSE /\ peerAuth' = peerAuth
            /\ inbuf' = inbuf \o Tagged(SensorAck, "s")
    /\ UNCHANGED <<pc, token, transport, sent, greeted, authVars, loopVars,
                   lastSend, interrupts, closeCount, feed, amplitude>>

\* the peer closes the stream (end of file at the client)
PeerClose ==
    /\ transport = "open"
    /\ transport' = "eof"
    /\ UNCHANGED <<pc, token, inbuf, sent, peerVars, authVars, loopVars,
                   lastSend, interrupts, closeCount, feed, amplitude>>

\* the connection is reset
PeerReset ==
    /\ transport \in {"open", "eof"}
    /\ transport' = "broken"
    /\ UNCHANGED <<pc, token, inbuf, sent, peerVars, authVars, loopVars,
                   lastSend, interrupts, closeCount, feed, amplitude>>

----------------------------------------------------------------------------
Next ==
    \/ Connect \/ ConnectFails \/ GreetRead \/ CheckToken \/ AuthWrite
    \/ AuthRead \/ NoSession \/ StartLoop \/ InterruptConnect
    \/ TickSend \/ TickAck \/ Plot \/ Edge \/ Sleep
    \/ InterruptLoop \/ Stopping \/ InterruptHandler
    \/ ResetSend \/ ResetAck \/ Close \/ InterruptFinally
    \/ PeerGreet \/ PeerReply \/ PeerClose \/ PeerReset

Spec == Init /\ [][Next]_vars

----------------------------------------------------------------------------
\* Edge-detection harness: the loop body of run_simulation (lines 88-96) fed
\* with an arbitrary sequence of vertical values instead of the generator

FeedValues == {98000, 99000, 102000, 105000, 110000}

RECURSIVE SeqsOfLen(_, _)
SeqsOfLen(S, n) ==
    IF n = 0 THEN {<<>>}
    ELSE {Append(s, c) : s \in SeqsOfLen(S, n - 1), c \in S}

InitEdge ==
    /\ pc = "feed"
    /\ token = "t"
    /\ transport = "none"
    /\ inbuf = <<>>
    /\ sent = <<>>
    /\ answered = 0
    /\ greeted = FALSE
    /\ peerAuth = "pending"
    /\ greetRead = <<>>
    /\ response = <<>>
    /\ emulator = "unset"
    /\ step_counter = 0
    /\ previous_y = Y_BASELINE
    /\ was_rising = FALSE
    /\ y = Y_BASELINE
    /\ out = <<>>
    /\ lastSend = NoSend
    /\ interrupts = 0
    /\ closeCount = 0
    /\ feed \in SeqsOfLen(FeedValues, MaxFeed)
    /\ amplitude = AMPLITUDE

\* one pass of lines 88-96 on the next value of the feed
FeedSample ==
    /\ pc = "feed"
    /\ step_counter < Len(feed)
    /\ y' = feed[step_counter + 1]
    /\ out' = Append(out, <<"plot", step_counter, plot_data_point(y', amplitude)>>)
                \o MarkerLines(was_rising, y', previous_y, step_counter)
    /\ was_rising' = is_rising_now(y', previous_y)
    /\ previous_y' = y'
    /\ step_counter' = step_counter + 1
    /\ UNCHANGED <<pc, token, transport, inbuf, sent, peerVars, authVars,
                   lastSend, interrupts, closeCount, feed, amplitude>>

NextEdge == FeedSample

SpecEdge == InitEdge /\ [][NextEdge]_vars

----------------------------------------------------------------------------
\* Properties

Range(s) == {s[i] : i \in DOMAIN s}
Kinds(k) == {i \in DOMAIN sent : sent[i].kind = k}
SensorWritten == Len(sent') = Len(sent) + 1 /\ sent'[Len(sent')].kind \in {"tick", "reset"}
LeftLoop == pc = "killed" \/ (pc = "done" /\ emulator = "session")

\* C1: whenever run_simulation has been left, exactly one reset command
\* (0, 9.8, 0) was sent (or attempted on a broken transport) and the session
\* was closed exactly once.
C1_ShutdownInvariant ==
    LeftLoop =>
        /\ lastSend.kind = "reset" /\ lastSend.finished
        /\ Cardinality(Kinds("reset")) <= 1
        /\ \A i \in Kinds("reset") : <<sent[i].x, sent[i].y, sent[i].z>> = <<0, 980, 0>>
        /\ closeCount = 1

\* C2: every write of a sensor command (tick update or reset) happens on a
\* session whose auth line the peer has accepted and that has not been closed.
C2_NoCommandUnauthenticated ==
    [][SensorWritten => peerAuth = "accepted" /\ closeCount = 0]_vars

\* C3: with an empty token no connection is opened, nothing is read from the
\* peer and nothing is written to it.
C3_MissingTokenNoContact ==
    token = "" => transport = "none" /\ greetRead = <<>> /\ sent = <<>>

\* C4: when connect_to_emulator returns after reading the reply to the auth
\* line without a transport error, the peer having sent its greeting (ending
\* in OK) and its reply: a reply ending in OK without KO gives a session, a
\* reply containing KO gives a failure.
C4_AuthOutcome ==
    [][(/\ pc = "auth_read" /\ pc' = "main_if"
        /\ greeted
        /\ ~ReadUntilOK(inbuf, transport).raised)
       => /\ peerAuth = "accepted" => emulator' = "session"
          /\ peerAuth = "rejected" => emulator' = "none"]_vars

\* The bytes returned by the second read end in the OK of the peer's reply
\* to the auth line
AuthReplyReceived(buf) ==
    /\ EndsInOK(buf)
    /\ buf[Len(buf) - 1].src = "a"
    /\ buf[Len(buf)].src = "a"

\* C5: connect_to_emulator returns a session only if an OK-terminated reply
\* to the auth line was received.
C5_SessionOnlyAfterAuthReply ==
    pc = "main_if" /\ emulator = "session" => AuthReplyReceived(response)

\* C6: once connect_to_emulator has failed, the loop is never started: no
\* tick runs, nothing is plotted, no sensor command (tick or reset) is
\* written or attempted, and the connection is never closed by the program.
C6_FailedStartupAborts ==
    emulator = "none" =>
        /\ pc \in {"main_if", "done", "aborted"}
        /\ Kinds("tick") = {} /\ Kinds("reset") = {}
        /\ lastSend = NoSend
        /\ step_counter = 0 /\ out = <<>>
        /\ closeCount = 0 /\ transport # "closed"

C6_Witness ==
    /\ pc = "done" /\ emulator = "none"
    /\ token # "" /\ peerAuth = "rejected"
    /\ HasKO(response)

\* A step that ends a tick's set_sensor_data call without acknowledgement
TransmitFailureStep ==
    /\ pc \in {"tick_send", "tick_ack"}
    /\ pc' # pc
    /\ interrupts' = interrupts
    /\ lastSend'.finished /\ ~lastSend'.acked

\* C7: a transmit failure in a tick leaves the loop running on the same
\* tick, which then completes with the step index increased by one; the loop
\* is left only by a KeyboardInterrupt.
C7_TransmitFailureNotFatal ==
    [][/\ TransmitFailureStep => pc' = "plot" /\ step_counter' = step_counter
       /\ pc = "plot" /\ pc' # pc => pc' \in {"edge", "stopping"}
       /\ pc = "edge" /\ pc' \notin {pc, "stopping"} =>
              pc' = "sleep" /\ step_counter' = step_counter + 1
       /\ pc = "sleep" /\ pc' \notin {pc, "stopping"} => pc' = "tick_send"
       /\ pc \in LoopPcs /\ pc' \notin LoopPcs =>
              pc' = "stopping" /\ interrupts' = interrupts + 1]_vars

\* two consecutive ticks failed to transmit and the loop is about to start
\* the third
C7_Witness ==
    /\ pc = "tick_send" /\ step_counter = 2 /\ interrupts = 0
    /\ lastSend.kind = "tick" /\ lastSend.finished /\ ~lastSend.acked
    /\ Kinds("tick") = {}

\* C8: a set_sensor_data call that ends without the OK terminator having
\* been received reports a failure, and does not close the session.
C8_FailureReported ==
    lastSend.finished /\ ~lastSend.acked =>
        lastSend.reported /\ (lastSend.kind = "tick" => closeCount = 0)

\* Sample n of the feed (n from 0) and the value previous_y holds when it is
\* processed
Sample(n) == feed[n + 1]
Before(n) == IF n = 0 THEN Y_BASELINE ELSE feed[n]

ExampleFeed == <<98000, 105000, 110000, 102000, 99000>>

\* C9: a marker is emitted while processing sample n exactly when sample n-1
\* was strictly greater than its predecessor and sample n is not strictly
\* greater than sample n-1; the sequence 9.8, 10.5, 11.0, 10.2, 9.9 gives
\* exactly one marker, at index 3.
C9_EdgeDetection ==
    /\ \A n \in 0..(step_counter - 1) :
          (<<"marker", n>> \in Range(out)) <=>
              /\ n >= 1
              /\ Sample(n - 1) > Before(n - 1)
              /\ ~(Sample(n) > Sample(n - 1))
    /\ Cardinality({i \in DOMAIN out : out[i][1] = "marker"})
         = Cardinality({n \in 0..(step_counter - 1) : <<"marker", n>> \in Range(out)})
    /\ (step_counter >= 5 /\ SubSeq(feed, 1, 5) = ExampleFeed) =>
          {n \in 0..4 : <<"marker", n>> \in Range(out)} = {3}

C9_Witness ==
    /\ step_counter = 5
    /\ SubSeq(feed, 1, 5) = ExampleFeed
    /\ <<"marker", 3>> \in Range(out)

\* C10: the delivery of a KeyboardInterrupt to the running loop moves
\* control to the handler; from then on no sample is generated, the step
\* index stands still, control stays in the cleanup sequence, and any
\* command written is the reset command.
C10_CancellationPreempts ==
    [][/\ pc \in LoopPcs /\ interrupts' > interrupts => pc' = "stopping"
       /\ interrupts >= 1 /\ pc # "aborted" =>
              /\ step_counter' = step_counter /\ y' = y
              /\ pc' \in {"stopping", "done", "killed"} \cup FinallyPcs
              /\ sent' # sent =>
                    /\ Len(sent') = Len(sent) + 1
                    /\ sent'[Len(sent')].kind = "reset"]_vars

\* interrupted in the middle of a tick (its command written, the tick not
\* completed), the reset command was the next command written
C10_Witness ==
    /\ pc = "close" /\ interrupts = 1
    /\ Cardinality(Kinds("tick")) = step_counter + 1
    /\ sent[Len(sent)].kind = "reset"
    /\ sent[Len(sent) - 1].kind = "tick"

\* Sensor commands written whose OK has not been received and consumed:
\* those the peer has not answered and those whose answer is still buffered
\* (the first line written is always the auth line)
InFlight ==
    LET written == IF Len(sent) >= 1 THEN Len(sent) - 1 ELSE 0
        dealt == IF answered >= 1 THEN answered - 1 ELSE 0
        buffered == Cardinality({i \in DOMAIN inbuf : inbuf[i].src = "s"}) \div 2
    IN  written - dealt + buffered

\* C11: a sensor command (tick update or reset) is written only when every
\* sensor command written before it has been acknowledged, its OK received
\* and consumed.
C11_OneInFlight ==
    [][SensorWritten => InFlight = 0]_vars

\* The steps of the program itself: every blocking call returns within its
\* timeout, so a step of the program that is possible is eventually taken.
\* Interrupts and the peer's steps are under no such obligation.
Program ==
    \/ Connect \/ ConnectFails \/ GreetRead \/ CheckToken \/ AuthWrite
    \/ AuthRead \/ NoSession \/ StartLoop
    \/ TickSend \/ TickAck \/ Plot \/ Edge \/ Sleep
    \/ Stopping \/ ResetSend \/ ResetAck \/ Close

SpecLive == Init /\ [][Next]_vars /\ WF_vars(Program)

\* C12: once the interrupt has stopped the running loop, the program
\* eventually has attempted the reset, closed the session and terminated.
C12_ShutdownLiveness ==
    (pc = "stopping") ~>
        (pc = "done" /\ closeCount = 1 /\ lastSend.kind = "reset" /\ lastSend.finished)

----------------------------------------------------------------------------
\* Plotter harness: plot_data_point (lines 12-24) applied to two values of a
\* grid that reaches below min_y and above max_y, the global AMPLITUDE being
\* the program's 2.0 or 0

PlotValues == {70000 + 400 * k : k \in 0..MaxPlotSteps}

InitPlot ==
    /\ pc = "render"
    /\ token = "t"
    /\ transport = "none"
    /\ inbuf = <<>>
    /\ sent = <<>>
    /\ answered = 0
    /\ greeted = FALSE
    /\ peerAuth = "pending"
    /\ greetRead = <<>>
    /\ response = <<>>
    /\ emulator = "unset"
    /\ step_counter = 0
    /\ previous_y = Y_BASELINE
    /\ was_rising = FALSE
    /\ y = Y_BASELINE
    /\ out = <<>>
    /\ lastSend = NoSend
    /\ interrupts = 0
    /\ closeCount = 0
    /\ feed \in {<<v1, v2>> : v1 \in PlotValues, v2 \in PlotValues}
    /\ amplitude \in {0, AMPLITUDE}

\* plot_data_point on the next value of the feed; a raise ends the harness
RenderSample ==
    /\ pc = "render"
    /\ step_counter < Len(feed)
    /\ y' = feed[step_counter + 1]
    /\ LET line == plot_data_point(y', amplitude)
       IN  /\ out' = Append(out, <<"plot", step_counter, line>>)
           /\ pc' = IF line.error = "none" THEN pc ELSE "raised"
    /\ step_counter' = step_counter + 1
    /\ UNCHANGED <<token, transport, inbuf, sent, peerVars, authVars,
                   previous_y, was_rising, lastSend, interrupts, closeCount,
                   feed, amplitude>>

NextPlot == RenderSample

SpecPlot == InitPlot /\ [][NextPlot]_vars

\* C13: with the program's amplitude, every bar length is an integer in
\* 0..GRAPH_WIDTH and rendering raises nothing; a value at or below min_y
\* gives 0 and a value at or above max_y gives GRAPH_WIDTH; of two values
\* the smaller has the bar that is not longer, and equal values give equal
\* lines.
C13_BarLength ==
    amplitude = AMPLITUDE =>
        /\ \A i \in DOMAIN out :
              /\ out[i][3].error = "none"
              /\ out[i][3].bar \in 0..GRAPH_WIDTH
              /\ feed[i] <= Y_BASELINE - AMPLITUDE => out[i][3].bar = 0
              /\ feed[i] >= Y_BASELINE + AMPLITUDE => out[i][3].bar = GRAPH_WIDTH
        /\ Len(out) = 2 =>
              /\ feed[1] < feed[2] => out[1][3].bar <= out[2][3].bar
              /\ feed[1] = feed[2] => out[1][3] = out[2][3]

\* a value below min_y and a value inside the range, rendered in this order
C13_Witness ==
    /\ amplitude = AMPLITUDE /\ Len(out) = 2
    /\ feed[1] < Y_BASELINE - AMPLITUDE /\ out[1][3].bar = 0
    /\ feed[2] = Y_BASELINE + 2000 /\ out[2][3].bar = 27

\* C14: rendering raises nothing when the amplitude is positive, and with
\* an amplitude of 0 it fails with an explicit error raised before the
\* division, not with the division's own ZeroDivisionError.
C14_NoDivisionByZero ==
    \A i \in DOMAIN out :
        /\ amplitude > 0 => out[i][3].error = "none"
        /\ amplitude = 0 => out[i][3].error \notin {"none", "ZeroDivisionError"}

----------------------------------------------------------------------------
\* C15: the auth line is written only after the greeting, up to and
\* including its OK, has been read.
C15_HandshakeOrdering ==
    (pc \in {"auth_read", "main_if"} /\ Kinds("auth") # {}) =>
        /\ EndsInOK(greetRead)
        /\ \A i \in DOMAIN greetRead : greetRead[i].src = "g"

IsTick(m) == m.kind = "tick"
IsPlot(e) == e[1] = "plot"
TickCommands == SelectSeq(sent, IsTick)
PlotLines == SelectSeq(out, IsPlot)

\* C16: the k-th tick command written carries sample(k-1) with two decimals;
\* the plot lines are those of samples 0, 1, 2, ... in order, one for every
\* completed tick (and one for the tick in progress once it has plotted),
\* each printed after its tick's send attempt has ended, and a marker line
\* comes directly after the plot line of its own tick; the step index only
\* ever grows by one.
C16_TickStructure ==
    /\ [](/\ \A k \in DOMAIN TickCommands :
                /\ TickCommands[k].y = Fmt2(WalkTable[k])
                /\ TickCommands[k].x = 0 /\ TickCommands[k].z = 0
          /\ \A i \in DOMAIN PlotLines :
                /\ PlotLines[i][2] = i - 1
                /\ PlotLines[i][3].value = Fmt2(WalkTable[i])
          /\ pc = "edge" => Len(PlotLines) = step_counter + 1
          /\ pc \in {"tick_send", "tick_ack", "plot", "sleep"} =>
                Len(PlotLines) = step_counter
          /\ Len(PlotLines) \in {step_counter, step_counter + 1}
          /\ \A i \in DOMAIN out :
                out[i][1] = "marker" =>
                    i > 1 /\ IsPlot(out[i - 1]) /\ out[i - 1][2] = out[i][2])
    /\ [][/\ step_counter' # step_counter =>
                pc = "edge" /\ step_counter' = step_counter + 1
          /\ Len(out') > Len(out) /\ IsPlot(out'[Len(out')]) =>
                /\ pc = "plot" /\ Len(out') = Len(out) + 1
                /\ lastSend.kind = "tick" /\ lastSend.finished]_vars

\* three ticks completed, the last one unacknowledged, the marker of the
\* peak printed on tick 2
C16_Witness ==
    /\ pc = "sleep" /\ step_counter = 3
    /\ Len(TickCommands) = 3 /\ ~lastSend.acked
    /\ out[Len(out)] = <<"marker", 2>>

\* C17: the session is closed only after the reset call has ended, nothing
\* is written once it is closed, and the reset call goes on to the close
\* whether its write or its wait succeeded or failed.
C17_CleanupOrdering ==
    [][/\ closeCount' # closeCount =>
             /\ closeCount = 0 /\ closeCount' = 1
             /\ lastSend.kind = "reset" /\ lastSend.finished
       /\ closeCount >= 1 => sent' = sent
       /\ (pc \in {"reset_send", "reset_ack"} /\ pc' # pc /\ interrupts' = interrupts) =>
             /\ lastSend'.kind = "reset"
             /\ pc' = IF lastSend'.finished THEN "close" ELSE "reset_ack"
       /\ (pc = "close" /\ pc' # pc /\ interrupts' = interrupts) =>
             pc' = "done" /\ closeCount' = 1]_vars

\* the reset raised and the session was closed all the same
C17_Witness ==
    /\ pc = "done" /\ closeCount = 1
    /\ lastSend.kind = "reset" /\ lastSend.reported
    /\ transport = "closed"

Marked(n) == <<"marker", n>> \in Range(out)

\* C18: no marker on tick 0, none on two consecutive ticks, was_rising is
\* false after a tick that printed a marker, and between two markers some
\* tick rose strictly.
C18_MarkersApart ==
    /\ \A n \in 0..(step_counter - 1) :
          Marked(n) => n >= 1 /\ ~Marked(n + 1) /\ ~Marked(n - 1)
    /\ (step_counter >= 1 /\ Marked(step_counter - 1)) => ~was_rising
    /\ \A m, n \in 0..(step_counter - 1) :
          (m < n /\ Marked(m) /\ Marked(n)) =>
              \E k \in (m + 1)..(n - 1) : Sample(k) > Sample(k - 1)

C18_Witness ==
    /\ step_counter = 4
    /\ Marked(1) /\ Marked(3)
    /\ ~was_rising

\* The loop state after n completed ticks, from the generator alone
ExpectedPrevious(n) == IF n = 0 THEN Y_BASELINE ELSE WalkTable[n]
ExpectedRising(n) == n >= 1 /\ WalkTable[n] > ExpectedPrevious(n - 1)
ExpectedPlot(n) == <<"plot", n, plot_data_point(WalkTable[n + 1], AMPLITUDE)>>

RECURSIVE ExpectedOut(_)
ExpectedOut(n) ==
    IF n = 0 THEN <<>>
    ELSE ExpectedOut(n - 1) \o <<ExpectedPlot(n - 1)>>
           \o (IF ExpectedRising(n - 1) /\ WalkTable[n] <= ExpectedPrevious(n - 1)
               THEN << <<"marker", n - 1>> >> ELSE <<>>)

\* C19: the console lines and (previous_y, was_rising) are a function of the
\* number of ticks executed alone, whatever the peer did, so two runs with
\* the same number of ticks agree on them; a transmit failure changes none
\* of them.
C19_PeerIndependence ==
    /\ [](/\ previous_y = ExpectedPrevious(step_counter)
          /\ was_rising = ExpectedRising(step_counter)
          /\ out \in {ExpectedOut(step_counter),
                      Append(ExpectedOut(step_counter), ExpectedPlot(step_counter))}
          /\ pc \in {"tick_send", "tick_ack", "plot", "sleep"} =>
                out = ExpectedOut(step_counter)
          /\ pc = "edge" =>
                out = Append(ExpectedOut(step_counter), ExpectedPlot(step_counter)))
    /\ [][TransmitFailureStep =>
             UNCHANGED <<step_counter, previous_y, was_rising, out>>]_vars

\* three ticks against a peer that reset the connection before the first
\* command
C19_Witness ==
    /\ pc = "sleep" /\ step_counter = 3
    /\ transport = "broken" /\ TickCommands = <<>>
    /\ out = ExpectedOut(3) /\ Len(out) = 4

====
